---------------------------- MODULE Spec2Model ----------------------------
(***************************************************************************)
(* Truncated power-series algebra (TPSA.py) and its symbolic function      *)
(* delegate (DelegateFunc.py).                                             *)
(*                                                                         *)
(* A coefficient is an exact rational <<n, d>>; floating-point rounding is *)
(* not modelled.  The one non-finite value NaN stands for both inf and nan *)
(* and absorbs every arithmetic operation; a value too large for the model *)
(* (see Huge) is non-finite, as a float that overflows is inf.  A DelegateFunc held as a       *)
(* coefficient is modelled by its value at one sample point and a flag     *)
(* saying the cell holds a delegate.                                       *)
(***************************************************************************)
EXTENDS Integers, Sequences, FiniteSets, TLC

VARIABLES ORDER, binom_coeffs, heap, last, dlast

vars == <<ORDER, binom_coeffs, heap, last, dlast>>

(***************************************************************************)
(* Bounds of the model.                                                    *)
(***************************************************************************)
MaxOrder == 3
MaxAbs == 4
Huge == 1073741823

(***************************************************************************)
(* Exact rationals.                                                        *)
(***************************************************************************)
IAbs(x) == IF x < 0 THEN -x ELSE x

RECURSIVE Gcd(_, _)
Gcd(a, b) == IF b = 0 THEN a ELSE Gcd(b, a % b)

NaN == <<0, 0>>

IsNaN(x) == x[2] = 0

Norm(n, d) ==
  IF d = 0 THEN NaN
  ELSE LET g == Gcd(IAbs(n), IAbs(d))
           s == IF d < 0 THEN -1 ELSE 1
       IN <<s * (n \div g), s * (d \div g)>>

R(n) == <<n, 1>>

\* Whether the product a * b stays within Huge.
Fits(a, b) == a = 0 \/ b = 0 \/ IAbs(a) <= Huge \div IAbs(b)

\* n/d from products that fit, non-finite otherwise.
Frac(a, b, c, d, e, f) ==
  IF Fits(a, b) /\ Fits(c, d) /\ Fits(e, f)
  THEN Norm(a * b + c * d, e * f)
  ELSE NaN

\* Sums and products cancel common factors before they multiply, so that the
\* intermediate integers stay as small as the result.
QAdd(x, y) ==
  IF IsNaN(x) \/ IsNaN(y) THEN NaN
  ELSE LET g == Gcd(x[2], y[2])
       IN Frac(x[1], y[2] \div g, y[1], x[2] \div g, x[2] \div g, y[2])

QMul(x, y) ==
  IF IsNaN(x) \/ IsNaN(y) THEN NaN
  ELSE LET g1 == Gcd(IAbs(x[1]), y[2])
           g2 == Gcd(IAbs(y[1]), x[2])
       IN Frac(x[1] \div g1, y[1] \div g2, 0, 0, x[2] \div g2, y[2] \div g1)

QNeg(x) == IF IsNaN(x) THEN NaN ELSE <<-x[1], x[2]>>

\* 1/x on NumPy scalars: a zero divisor gives inf and a warning, no exception.
QInv(x) == IF IsNaN(x) THEN NaN ELSE Norm(x[2], x[1])

\* A float stored into an integer array is truncated toward zero.
QTrunc(x) ==
  IF IsNaN(x) THEN NaN
  ELSE IF x[1] >= 0 THEN R(x[1] \div x[2]) ELSE R(-((-x[1]) \div x[2]))

RECURSIVE Fact(_)
Fact(n) == IF n <= 0 THEN 1 ELSE n * Fact(n - 1)

RECURSIVE IPow(_, _)
IPow(b, e) == IF e = 0 THEN 1 ELSE b * IPow(b, e - 1)


(***************************************************************************)
(* Arrays, scalars and outcomes.                                           *)
(*                                                                         *)
(* A coefficient array is [fx, fun, dtype]: fx the values, fun[i] whether  *)
(* cell i holds a DelegateFunc (object arrays only), dtype the NumPy dtype *)
(* ("int", "float" or "object").  Index i of the model is index i-1 of the *)
(* code.  A scalar is [v, ty, np]: ty is "int", "float" or "fun" (a        *)
(* DelegateFunc), np whether it is a NumPy scalar read from an array.      *)
(***************************************************************************)
Arr(fx, fun, dtype) == [fx |-> fx, fun |-> fun, dtype |-> dtype]

NoRes == Arr(<<>>, <<>>, "none")

Scalar(v, ty, np) == [v |-> v, ty |-> ty, np |-> np]

NoScalar == Scalar(NaN, "none", FALSE)

PyInt(n) == Scalar(R(n), "int", FALSE)

PyFloat(x) == Scalar(x, "float", FALSE)

NpFloat(x) == Scalar(x, "float", TRUE)

Ok(s) == [err |-> "none", res |-> s]

Raise(e) == [err |-> e, res |-> NoRes]

\* An exception ends the computation; otherwise it goes on with the value.
Then(o, F(_)) == IF o.err # "none" THEN Raise(o.err) ELSE F(o.res)

np_zeros(n, dtype) == Arr([i \in 1..n |-> R(0)], [i \in 1..n |-> FALSE], dtype)

\* self._fx[0]: the element keeps the array's type.
Item0(a) ==
  IF a.dtype = "object"
  THEN Scalar(a.fx[1], IF a.fun[1] THEN "fun" ELSE "float", FALSE)
  ELSE Scalar(a.fx[1], a.dtype, TRUE)

\* The dtype of an elementwise binary result.
Promote(d1, d2) ==
  IF d1 = "object" \/ d2 = "object" THEN "object"
  ELSE IF d1 = "float" \/ d2 = "float" THEN "float"
  ELSE "int"

\* Whether NumPy's same_kind rule lets a result of dtype d be stored in place
\* into an array of dtype target.
CanCastInPlace(d, target) ==
  \/ target = "object"
  \/ target = "float" /\ d \in {"int", "float"}
  \/ target = "int" /\ d = "int"

RECURSIVE SumTo(_, _)
SumTo(f, n) == IF n = 0 THEN R(0) ELSE QAdd(SumTo(f, n - 1), f[n])

(***************************************************************************)
(* TPSA_meta: the process-wide order and its binomial table.               *)
(***************************************************************************)
RECURSIVE sp_binom(_, _)
sp_binom(n, k) ==
  IF k = 0 THEN 1
  ELSE IF n = 0 THEN 0
  ELSE sp_binom(n - 1, k - 1) + sp_binom(n - 1, k)

BinomTable(order) ==
  [n \in 1..(order + 1) |-> [k \in 1..(order + 1) |-> sp_binom(n - 1, k - 1)]]

DefaultOrder == 2

\* Fault: the setter stores the new order and keeps the table it had.
order_setter_stale_table(order) ==
  IF order.ty = "int"
  THEN IF order.v[1] > 1
       THEN [err |-> "none", ORDER |-> order.v[1],
             binom_coeffs |-> binom_coeffs]
       ELSE [err |-> "ValueError", ORDER |-> ORDER,
             binom_coeffs |-> binom_coeffs]
  ELSE [err |-> "TypeError", ORDER |-> ORDER, binom_coeffs |-> binom_coeffs]

\* An assignment TPSA.order = order, order a scalar (a float is no int).
\* The result is the error and the order and table afterwards.
order_setter(order) ==
  IF order.ty = "int"
  THEN IF order.v[1] > 1
       THEN [err |-> "none", ORDER |-> order.v[1],
             binom_coeffs |-> BinomTable(order.v[1])]
       ELSE [err |-> "ValueError", ORDER |-> ORDER,
             binom_coeffs |-> binom_coeffs]
  ELSE [err |-> "TypeError", ORDER |-> ORDER, binom_coeffs |-> binom_coeffs]

(***************************************************************************)
(* TPSA.__init__.  A constructor argument is [kind, arr, v]: kind "seq" (a *)
(* list, tuple or ndarray, in arr), "num" (an int or float v), "delegate"  *)
(* (a DelegateFunc of sample value v) or "other" (anything else, a TPSA    *)
(* included).                                                              *)
(***************************************************************************)
SeqArg(a) == [kind |-> "seq", arr |-> a, v |-> NaN]

NumArg(v) == [kind |-> "num", arr |-> NoRes, v |-> v]

DelegateArg(v) == [kind |-> "delegate", arr |-> NoRes, v |-> v]

OtherArg == [kind |-> "other", arr |-> NoRes, v |-> NaN]

\* Fault: the constructor sizes a series by the order the class started with.
TPSA_init_default_order(value) ==
  IF value.kind = "seq"
  THEN IF Len(value.arr.fx) # DefaultOrder + 1
       THEN Raise("ValueError")
       ELSE Ok(value.arr)
  ELSE IF value.kind = "num"
  THEN Ok(Arr([i \in 1..(DefaultOrder + 1) |->
                 IF i = 1 THEN value.v ELSE IF i = 2 THEN R(1) ELSE R(0)],
              [i \in 1..(DefaultOrder + 1) |-> FALSE], "float"))
  ELSE IF value.kind = "delegate"
  THEN Ok(Arr([i \in 1..(DefaultOrder + 1) |->
                 IF i = 1 THEN value.v ELSE IF i = 2 THEN R(1) ELSE R(0)],
              [i \in 1..(DefaultOrder + 1) |-> i = 1], "object"))
  ELSE Raise("TypeError")

TPSA_init(value) ==
  IF value.kind = "seq"
  THEN IF Len(value.arr.fx) # ORDER + 1
       THEN Raise("ValueError")
       ELSE Ok(value.arr)
  ELSE IF value.kind = "num"
  THEN Ok(Arr([i \in 1..(ORDER + 1) |->
                 IF i = 1 THEN value.v ELSE IF i = 2 THEN R(1) ELSE R(0)],
              [i \in 1..(ORDER + 1) |-> FALSE], "float"))
  ELSE IF value.kind = "delegate"
  THEN Ok(Arr([i \in 1..(ORDER + 1) |->
                 IF i = 1 THEN value.v ELSE IF i = 2 THEN R(1) ELSE R(0)],
              [i \in 1..(ORDER + 1) |-> i = 1], "object"))
  ELSE Raise("TypeError")

\* TPSA(v) for an array v a call computed: an exception raised while
\* computing v ends the call.
InitOf(o) == Then(o, LAMBDA temp : TPSA_init(SeqArg(temp)))

(***************************************************************************)
(* Operands.  An operator's other operand is a TPSA (it has _fx) or a      *)
(* scalar (reading its _fx raises AttributeError, which selects the scalar *)
(* path).                                                                  *)
(***************************************************************************)
T(s) == [tag |-> "tpsa", ser |-> s, sc |-> NoScalar]

N(sc) == [tag |-> "num", ser |-> NoRes, sc |-> sc]

\* temp[0] += other on an array: the sum is cast to the array's dtype.
AddToItem0(a, sc) ==
  LET sum == QAdd(a.fx[1], sc.v) IN
  IF a.dtype = "object"
  THEN Ok(Arr([a.fx EXCEPT ![1] = sum],
              [a.fun EXCEPT ![1] = a.fun[1] \/ sc.ty = "fun"], "object"))
  ELSE IF sc.ty = "fun" THEN Raise("TypeError")
  ELSE IF a.dtype = "int"
  THEN Ok(Arr([a.fx EXCEPT ![1] = QTrunc(sum)], a.fun, "int"))
  ELSE Ok(Arr([a.fx EXCEPT ![1] = sum], a.fun, "float"))

\* temp *= other on an array and a scalar, in place.
ScaleInPlace(a, sc) ==
  IF a.dtype = "object"
  THEN Ok(Arr([i \in 1..Len(a.fx) |-> QMul(a.fx[i], sc.v)],
              [i \in 1..Len(a.fx) |-> a.fun[i] \/ sc.ty = "fun"], "object"))
  ELSE IF sc.ty = "fun" THEN Raise("TypeError")
  ELSE IF ~CanCastInPlace(sc.ty, a.dtype) THEN Raise("TypeError")
  ELSE Ok(Arr([i \in 1..Len(a.fx) |-> QMul(a.fx[i], sc.v)], a.fun, a.dtype))

\* self._fx + other._fx, a new array.
np_add(a, b) ==
  IF Len(a.fx) # Len(b.fx) THEN Raise("ValueError")
  ELSE Ok(Arr([i \in 1..Len(a.fx) |-> QAdd(a.fx[i], b.fx[i])],
              [i \in 1..Len(a.fx) |-> a.fun[i] \/ b.fun[i]],
              Promote(a.dtype, b.dtype)))

\* np.allclose(self._fx, other._fx) on exact values; two arrays of different
\* lengths do not broadcast.
TPSA_eq(self, other) ==
  IF Len(self.fx) # Len(other.fx) THEN Raise("ValueError")
  ELSE Ok(\A i \in 1..Len(self.fx) :
            ~IsNaN(self.fx[i]) /\ self.fx[i] = other.fx[i])

(***************************************************************************)
(* Addition, negation, subtraction.                                        *)
(***************************************************************************)
TPSA_add(self, other) ==
  IF other.tag = "tpsa"
  THEN InitOf(np_add(self, other.ser))
  ELSE InitOf(AddToItem0(self, other.sc))

TPSA_radd(self, other) == TPSA_add(self, other)

\* The outcome of an in-place operator is the array self._fx holds afterwards;
\* an exception leaves self._fx as it was.
TPSA_iadd(self, other) ==
  IF other.tag = "tpsa"
  THEN IF ~CanCastInPlace(other.ser.dtype, self.dtype) THEN Raise("TypeError")
       ELSE IF Len(self.fx) # Len(other.ser.fx) THEN Raise("ValueError")
       ELSE Ok(Arr([i \in 1..Len(self.fx) |-> QAdd(self.fx[i], other.ser.fx[i])],
                   [i \in 1..Len(self.fx) |-> self.fun[i] \/ other.ser.fun[i]],
                   self.dtype))
  ELSE AddToItem0(self, other.sc)

\* -self when self[0] > 0, self itself when self[0] < 0
TPSA_abs(self) ==
  IF self.fun[1] THEN Raise("TypeError")
  ELSE IF self.fx[1] = R(0) THEN Raise("ValueError")
  ELSE IF ~IsNaN(self.fx[1]) /\ self.fx[1][1] > 0
  THEN TPSA_init(SeqArg(Arr([i \in 1..Len(self.fx) |-> QNeg(self.fx[i])],
                            self.fun, self.dtype)))
  ELSE Ok(self)

TPSA_neg(self) ==
  TPSA_init(SeqArg(Arr([i \in 1..Len(self.fx) |-> QNeg(self.fx[i])],
                       self.fun, self.dtype)))

\* -other for either kind of operand.
NegOperand(other) ==
  IF other.tag = "tpsa"
  THEN Then(TPSA_neg(other.ser), LAMBDA n : Ok(T(n)))
  ELSE IF other.sc.ty = "fun"
  THEN Ok(N(Scalar(QNeg(other.sc.v), "fun", FALSE)))
  ELSE Ok(N(Scalar(QNeg(other.sc.v), other.sc.ty, other.sc.np)))

TPSA_sub(self, other) ==
  Then(NegOperand(other), LAMBDA n : TPSA_add(self, n))

TPSA_rsub(self, other) ==
  Then(TPSA_neg(self), LAMBDA temp : TPSA_add(temp, other))

(***************************************************************************)
(* Multiplication.                                                         *)
(***************************************************************************)
\* The vectorised path: for each j, other's first j+1 cells reversed into a
\* zero vector, then einsum over row j of the table, self and that vector.
\* einsum needs its three operands to have one length.
mul_numeric(self, other) ==
  LET length == Len(self.fx)
      temp(j) == [i \in 1..Len(other.fx) |->
                    IF i <= j THEN other.fx[j - i + 1] ELSE R(0)]
      einsum(row, a, b) ==
        SumTo([i \in 1..Len(a) |-> QMul(QMul(R(row[i]), a[i]), b[i])], Len(a))
  IN IF Len(binom_coeffs[1]) # length \/ Len(other.fx) # length
     THEN Raise("ValueError")
     ELSE Ok(Arr([j \in 1..length |->
                    einsum(binom_coeffs[j], self.fx, temp(j))],
                 [j \in 1..length |-> FALSE], "float"))

\* Fault: the nested loop without the binomial coefficient.
mul_symbolic_no_binom(self, other) ==
  LET length == Len(self.fx)
      term(i, j) == QMul(self.fx[j], other.fx[i - j + 1])
  IN IF length > Len(binom_coeffs) \/ length > Len(other.fx)
     THEN Raise("IndexError")
     ELSE Ok(Arr([i \in 1..length |-> SumTo([j \in 1..i |-> term(i, j)], i)],
                 [i \in 1..length |->
                    \E j \in 1..i : self.fun[j] \/ other.fun[i - j + 1]],
                 "object"))

\* The nested-loop path, used when either array has dtype object.  Reading
\* the table or other._fx past its end raises IndexError.
mul_symbolic(self, other) ==
  LET length == Len(self.fx)
      term(i, j) == QMul(QMul(R(binom_coeffs[i][j]), self.fx[j]),
                         other.fx[i - j + 1])
  IN IF length > Len(binom_coeffs) \/ length > Len(other.fx)
     THEN Raise("IndexError")
     ELSE Ok(Arr([i \in 1..length |-> SumTo([j \in 1..i |-> term(i, j)], i)],
                 [i \in 1..length |->
                    \E j \in 1..i : self.fun[j] \/ other.fun[i - j + 1]],
                 "object"))

mul_val(self, other) ==
  IF self.dtype = "object" \/ other.dtype = "object"
  THEN mul_symbolic(self, other)
  ELSE mul_numeric(self, other)

TPSA_mul(self, other) ==
  IF other.tag = "tpsa"
  THEN InitOf(mul_val(self, other.ser))
  ELSE InitOf(ScaleInPlace(self, other.sc))

TPSA_rmul(self, other) == TPSA_mul(self, other)

TPSA_imul(self, other) ==
  IF other.tag = "tpsa"
  THEN mul_val(self, other.ser)
  ELSE ScaleInPlace(self, other.sc)

(***************************************************************************)
(* _series: sum over k of factors[k] * store^k, store being trunc with its *)
(* cell 0 zeroed.  The loop state is the pair [acc, new], or the exception *)
(* that ended the loop.                                                    *)
(***************************************************************************)
LoopState(acc, new) == Ok([acc |-> acc, new |-> new])

SeriesStep(st, store, f) ==
  Then(st, LAMBDA s :
    Then(TPSA_imul(s.acc, T(store)), LAMBDA acc :
      Then(TPSA_mul(acc, N(f)), LAMBDA prod :
        Then(TPSA_iadd(s.new, T(prod)), LAMBDA new :
          LoopState(acc, new)))))

\* The first pass of the numeric branch, where accumulate is the int 1 and new
\* the int 0: 1*store and 0 + accumulate*f go through __rmul__ and __radd__.
SeriesFirst(store, f) ==
  Then(TPSA_rmul(store, N(PyInt(1))), LAMBDA acc :
    Then(TPSA_mul(acc, N(f)), LAMBDA prod :
      Then(TPSA_radd(prod, N(PyInt(0))), LAMBDA new :
        LoopState(acc, new))))

RECURSIVE SeriesLoop(_, _, _, _)
SeriesLoop(st, store, factors, k) ==
  IF k > Len(factors) THEN st
  ELSE SeriesLoop(SeriesStep(st, store, factors[k]), store, factors, k + 1)

TPSA_series(trunc, factors) ==
  LET symbolic == trunc.fun[1]
      n == ORDER + 1
      store == Arr([i \in 1..n |-> IF i = 1 THEN R(0) ELSE trunc.fx[i]],
                   [i \in 1..n |-> IF i = 1 THEN FALSE ELSE trunc.fun[i]],
                   IF symbolic THEN "object" ELSE "float")
      one == Arr([i \in 1..n |-> IF i = 1 THEN R(1) ELSE R(0)],
                 [i \in 1..n |-> FALSE], "object")
  IN IF Len(trunc.fx) # n THEN Raise("ValueError")
     ELSE IF ~symbolic /\ \E i \in 2..n : trunc.fun[i] THEN Raise("TypeError")
     ELSE Then(SeriesLoop(IF symbolic
                          THEN LoopState(one, np_zeros(n, "object"))
                          ELSE SeriesFirst(store, factors[1]),
                          store, factors, IF symbolic THEN 1 ELSE 2),
               LAMBDA st : Ok(st.new))

(***************************************************************************)
(* Division.                                                               *)
(***************************************************************************)
\* temp = self._fx.copy(); temp *= 1/other; TPSA(temp)
truediv_scalar(self, sc) ==
  IF sc.ty = "fun" THEN Raise("TypeError")
  ELSE IF ~sc.np /\ sc.v = R(0) THEN Raise("ZeroDivisionError")
  ELSE InitOf(ScaleInPlace(self, Scalar(QInv(sc.v), "float", sc.np)))

\* (-1)**(k+1)/x0 for k in range(order)
RecipFactors(x0) ==
  [k \in 1..ORDER |-> NpFloat(QMul(R(IPow(-1, k)), QInv(x0)))]

\* _series(d/d[0], factors) + 1/d[0]
Reciprocal(d) ==
  Then(truediv_scalar(d, Item0(d)), LAMBDA q :
    Then(TPSA_series(q, RecipFactors(d.fx[1])), LAMBDA s :
      TPSA_add(s, N(NpFloat(QInv(d.fx[1]))))))

TPSA_truediv(self, other) ==
  IF other.tag = "tpsa"
  THEN Then(Reciprocal(other.ser), LAMBDA temp : TPSA_mul(self, T(temp)))
  ELSE truediv_scalar(self, other.sc)

TPSA_rtruediv(self, other) ==
  Then(Reciprocal(self), LAMBDA temp : TPSA_rmul(temp, other))

(***************************************************************************)
(* Elementary functions.  The values NumPy returns at the base point are   *)
(* given constants: each of np.exp, np.log, np.sin, np.cos is a fixed      *)
(* stand-in on the rationals (np.log is non-finite at x <= 0).             *)
(* An argument is an operand: a TPSA, or a plain number.  Symbolic series  *)
(* are not passed to these functions.                                      *)
(***************************************************************************)
np_exp(x) == QAdd(x, R(4))

np_log(x) == IF IsNaN(x) \/ x[1] <= 0 THEN NaN ELSE QAdd(x, R(1))

np_sin(x) == QAdd(x, R(2))

np_cos(x) == QAdd(x, R(3))

OnlyAcceptsTPSA == "AttributeError: Function only accepts TPSA object"

\* 1/(k+1)! for k in range(order)
ExpFactors == [k \in 1..ORDER |-> PyFloat(<<1, Fact(k)>>)]

TPSA_exp(trunc) ==
  IF trunc.tag # "tpsa" THEN Raise(OnlyAcceptsTPSA)
  ELSE Then(TPSA_series(trunc.ser, ExpFactors), LAMBDA s :
         Then(TPSA_add(s, N(PyInt(1))), LAMBDA new :
           TPSA_rmul(new, N(NpFloat(np_exp(trunc.ser.fx[1]))))))

\* (-1)**k/(k+1) for k in range(order)
LnFactors == [k \in 1..ORDER |-> PyFloat(<<IPow(-1, k - 1), k>>)]

TPSA_ln(trunc) ==
  IF trunc.tag # "tpsa" THEN Raise(OnlyAcceptsTPSA)
  ELSE Then(TPSA_truediv(trunc.ser, N(Item0(trunc.ser))), LAMBDA q :
         Then(TPSA_series(q, LnFactors), LAMBDA s :
           TPSA_add(s, N(NpFloat(np_log(trunc.ser.fx[1]))))))

\* Fault: the factors without their alternating sign.
TrigFactorsUnsigned(pre, shift) ==
  [k \in 1..ORDER |->
     NpFloat(QMul(pre[((k - 1) % 2) + 1], <<1, Fact(k)>>))]

\* pre[k%2] * (-1)**((k+shift)//2) * (1/(k+1)!) for k in range(order)
TrigFactors(pre, shift) ==
  [k \in 1..ORDER |->
     NpFloat(QMul(QMul(pre[((k - 1) % 2) + 1],
                       R(IPow(-1, (k - 1 + shift) \div 2))),
                  <<1, Fact(k)>>))]

TPSA_sin(trunc) ==
  IF trunc.tag # "tpsa" THEN Raise(OnlyAcceptsTPSA)
  ELSE Then(TPSA_series(trunc.ser,
                        TrigFactors(<<np_cos(trunc.ser.fx[1]),
                                      np_sin(trunc.ser.fx[1])>>, 1)),
            LAMBDA s : TPSA_add(s, N(NpFloat(np_sin(trunc.ser.fx[1])))))

TPSA_cos(trunc) ==
  IF trunc.tag # "tpsa" THEN Raise(OnlyAcceptsTPSA)
  ELSE Then(TPSA_series(trunc.ser,
                        TrigFactors(<<np_sin(trunc.ser.fx[1]),
                                      np_cos(trunc.ser.fx[1])>>, 2)),
            LAMBDA s : TPSA_add(s, N(NpFloat(np_cos(trunc.ser.fx[1])))))

TPSA_tan(trunc) ==
  Then(TPSA_sin(trunc), LAMBDA a :
    Then(TPSA_cos(trunc), LAMBDA b : TPSA_truediv(a, T(b))))

TPSA_sec(trunc) ==
  Then(TPSA_cos(trunc), LAMBDA c : TPSA_rtruediv(c, N(PyFloat(R(1)))))

TPSA_csc(trunc) ==
  Then(TPSA_sin(trunc), LAMBDA c : TPSA_rtruediv(c, N(PyFloat(R(1)))))

TPSA_cot(trunc) ==
  Then(TPSA_cos(trunc), LAMBDA a :
    Then(TPSA_sin(trunc), LAMBDA b : TPSA_truediv(a, T(b))))

\* c * x for a Python number c: a number when x is one, else x.__rmul__(c).
NumTimes(c, x) ==
  IF x.tag = "tpsa"
  THEN Then(TPSA_rmul(x.ser, N(PyInt(c))), LAMBDA m : Ok(T(m)))
  ELSE Ok(N(Scalar(QMul(R(c), x.sc.v), x.sc.ty, x.sc.np)))

TPSA_tanh(trunc) ==
  Then(NumTimes(2, trunc), LAMBDA two :
    Then(TPSA_exp(two), LAMBDA temp :
      Then(TPSA_sub(temp, N(PyInt(1))), LAMBDA a :
        Then(TPSA_add(temp, N(PyInt(1))), LAMBDA b :
          TPSA_truediv(a, T(b))))))

TPSA_pow(self, power) ==
  Then(TPSA_ln(T(self)), LAMBDA l :
    Then(TPSA_rmul(l, N(power)), LAMBDA m : TPSA_exp(T(m))))

\* (1 + TPSA(-trunc)) ** pow: -trunc of a TPSA is a TPSA, which the
\* constructor is then given as its value.
TPSA_logistic(trunc, pow) ==
  Then(NegOperand(trunc), LAMBDA n :
    Then(TPSA_init(IF n.tag = "tpsa" THEN OtherArg ELSE NumArg(n.sc.v)),
         LAMBDA t :
           Then(TPSA_radd(t, N(PyInt(1))), LAMBDA u : TPSA_pow(u, pow))))

DefaultPow == PyFloat(R(1))

TPSA_heaviside(trunc, sharp) ==
  Then(NumTimes(2 * sharp, trunc), LAMBDA arg :
    TPSA_logistic(arg, DefaultPow))

(***************************************************************************)
(* __getitem__ with a slice [lo:hi], then an assignment into what it       *)
(* returned.  The value returned is [base, off, data]: base TRUE when it   *)
(* shares the series' storage from offset off, so that writing into it     *)
(* writes into the series.  A slice of an array is a view; .copy() makes   *)
(* it an array of its own.                                                 *)
(***************************************************************************)
\* Fault: the slice is returned without .copy(), a view of the series.
getitem_view(self, lo, hi) ==
  [base |-> TRUE, off |-> lo, data |-> SubSeq(self.fx, lo + 1, hi)]

TPSA_getitem(self, lo, hi) ==
  [base |-> FALSE, off |-> lo, data |-> SubSeq(self.fx, lo + 1, hi)]

\* new = w[lo:hi]; new[k] = v   -- the series w afterwards
SliceAssign(self, lo, hi, k, v) ==
  LET new == TPSA_getitem(self, lo, hi) IN
  IF new.base
  THEN Arr([self.fx EXCEPT ![new.off + k + 1] = v], self.fun, self.dtype)
  ELSE self

(***************************************************************************)
(* DelegateFunc: a function and its display string.  The function is       *)
(* modelled by its value v at one sample point.  A scalar operand is       *)
(* [str, v]: what str() prints for it, and its value.                      *)
(***************************************************************************)
Delegate(string, v) == [string |-> string, v |-> v]

ZeroLiterals == {"0.0", "0", "-0.0", "-0"}

\* self * other for a DelegateFunc other (it has .func and .string)
DelegateFunc_mul(self, other) ==
  LET newstring ==
        IF Len(self.string) <= Len(other.string)
        THEN IF self.string \in ZeroLiterals THEN "0"
             ELSE self.string \o "*(" \o other.string \o ")"
        ELSE IF other.string \in ZeroLiterals THEN "0"
             ELSE other.string \o "*(" \o self.string \o ")"
  IN Delegate(newstring, QMul(self.v, other.v))

\* self * other for a plain number other (reading other.func raises
\* AttributeError)
DelegateFunc_mul_scalar(self, other) ==
  LET newstring ==
        IF self.string \in ZeroLiterals THEN "0"
        ELSE IF other.str \in {"1.0", "1"} THEN self.string
        ELSE IF other.str \in {"-1.0", "-1"} THEN "-(" \o self.string \o ")"
        ELSE IF other.str \in ZeroLiterals THEN "0"
        ELSE other.str \o "*(" \o self.string \o ")"
  IN Delegate(newstring, QMul(other.v, self.v))

DelegateFunc_add(self, other) ==
  LET zero(s) == s = "0.0" \/ s = "0"
      newstring ==
        IF zero(other.string)
        THEN IF zero(self.string) THEN "0" ELSE self.string
        ELSE IF zero(self.string) THEN other.string
        ELSE self.string \o "+" \o other.string
  IN Delegate(newstring, QAdd(self.v, other.v))

DelegateFunc_neg(self) ==
  Delegate("-(" \o self.string \o ")", QNeg(self.v))

(***************************************************************************)
(* The caller.  It holds two names, each bound to a series or unbound      *)
(* (NoRes); heap[n] is the array the series bound to n holds.  last is the *)
(* last call: its operation, its operands (a and b name series, sc is a    *)
(* scalar operand, val a constructor argument) and its outcome.            *)
(***************************************************************************)
Names == {1, 2}

Live == {n \in Names : heap[n] # NoRes}

Numeric == {n \in Live : heap[n].dtype # "object"}

Call(op, a, b, sc, val, o) ==
  [op |-> op, a |-> a, b |-> b, sc |-> sc, val |-> val,
   err |-> o.err, res |-> o.res]

NoCall == Call("none", 0, 0, NoScalar, OtherArg, Raise("none"))

NoDelegateCall ==
  [op |-> "none", self |-> Delegate("", R(0)), other |-> Delegate("", R(0)),
   res |-> Delegate("", R(0))]

\* Inputs of the caller.
OrderInputs ==
  {PyInt(n) : n \in 0..MaxOrder} \cup {PyFloat(<<5, 2>>)}

ScalarOperands == {PyInt(2), PyFloat(R(2))}

\* Numbers written to the left of a series, as in 1/a and 2.0*a.
LeftOperands == {PyInt(1), PyFloat(R(2))}

NumberArgs == {PyInt(-1)}

Powers == {DefaultPow, PyFloat(R(2))}

DefaultSharp == 10

\* The list [3.0, 1, ..., 1, 2] of n floats.
Lists(n) ==
  {Arr([i \in 1..n |-> IF i = 1 THEN R(3) ELSE IF i = n THEN R(2) ELSE R(1)],
       [i \in 1..n |-> FALSE], "float")}

InitInputs ==
  {SeqArg(l) : l \in UNION {Lists(n) : n \in ORDER..(ORDER + 2)}}
    \cup {NumArg(R(2)), DelegateArg(R(2)), OtherArg}

\* The caller keeps what it stores in place within MaxAbs.
Small ==
  \A n \in Names : \A i \in 1..Len(heap[n].fx) :
    IAbs(heap[n].fx[i][1]) <= MaxAbs /\ heap[n].fx[i][2] <= MaxAbs

\* The caller is between calls.
Idle == last.op = "none"

Init ==
  /\ ORDER = DefaultOrder
  /\ binom_coeffs = BinomTable(DefaultOrder)
  /\ heap = [n \in Names |-> NoRes]
  /\ last = NoCall
  /\ dlast = NoDelegateCall

SetOrder ==
  \E order \in OrderInputs :
    LET r == order_setter(order) IN
    /\ Idle
    /\ ORDER' = r.ORDER
    /\ binom_coeffs' = r.binom_coeffs
    /\ last' = Call("order", 0, 0, order, OtherArg, Raise(r.err))
    /\ UNCHANGED <<heap, dlast>>

\* n = TPSA(value)
Construct ==
  \E n \in Names, value \in InitInputs :
    LET o == TPSA_init(value) IN
    /\ Idle
    /\ heap' = IF o.err = "none" THEN [heap EXCEPT ![n] = o.res] ELSE heap
    /\ last' = Call("init", n, 0, NoScalar, value, o)
    /\ UNCHANGED <<ORDER, binom_coeffs, dlast>>

\* A call that returns a new value: nothing the caller holds changes.
Returns(op, a, other, o) ==
  /\ Idle
  /\ last' = Call(op, a, IF other.tag = "tpsa" THEN other.b ELSE 0,
                  other.sc, OtherArg, o)
  /\ UNCHANGED <<ORDER, binom_coeffs, heap, dlast>>

\* A call that stores into series a: the outcome's array on success.
Stores(op, a, other, o) ==
  /\ Idle
  /\ heap' = IF o.err = "none" THEN [heap EXCEPT ![a] = o.res] ELSE heap
  /\ last' = Call(op, a, IF other.tag = "tpsa" THEN other.b ELSE 0,
                  other.sc, OtherArg, o)
  /\ UNCHANGED <<ORDER, binom_coeffs, dlast>>

\* The other operand of a call: series b, or a scalar.
Others ==
  {[tag |-> "tpsa", b |-> b, ser |-> heap[b], sc |-> NoScalar] : b \in Live}
    \cup {[tag |-> "num", b |-> 0, ser |-> NoRes, sc |-> sc] :
            sc \in ScalarOperands}

ScalarOthers ==
  {[tag |-> "num", b |-> 0, ser |-> NoRes, sc |-> sc] : sc \in LeftOperands}

Opd(x) == [tag |-> x.tag, ser |-> x.ser, sc |-> x.sc]

Add == \E a \in Live, x \in Others : Returns("add", a, x, TPSA_add(heap[a], Opd(x)))

Radd == \E a \in Live, x \in ScalarOthers :
  Returns("radd", a, x, TPSA_radd(heap[a], Opd(x)))

\* The caller accumulates in place into its first name.
Iadd == \E a \in Live \cap {1}, x \in Others : Stores("iadd", a, x, TPSA_iadd(heap[a], Opd(x)))

Abs == \E a \in Live :
  Returns("abs", a, [tag |-> "num", b |-> 0, sc |-> NoScalar], TPSA_abs(heap[a]))

Neg == \E a \in Live :
  Returns("neg", a, [tag |-> "num", b |-> 0, sc |-> NoScalar], TPSA_neg(heap[a]))

Sub == \E a \in Live, x \in Others : Returns("sub", a, x, TPSA_sub(heap[a], Opd(x)))

Rsub == \E a \in Live, x \in ScalarOthers :
  Returns("rsub", a, x, TPSA_rsub(heap[a], Opd(x)))

Mul == \E a \in Live, x \in Others : Returns("mul", a, x, TPSA_mul(heap[a], Opd(x)))

Rmul == \E a \in Live, x \in ScalarOthers :
  Returns("rmul", a, x, TPSA_rmul(heap[a], Opd(x)))

Imul == \E a \in Live \cap {1}, x \in Others : Stores("imul", a, x, TPSA_imul(heap[a], Opd(x)))

\* a ** pow, for a numeric series a
Pow == \E a \in Numeric, pow \in Powers :
  Returns("pow", a, [tag |-> "num", b |-> 0, sc |-> pow], TPSA_pow(heap[a], pow))

Truediv == \E a \in Live, x \in Others :
  Returns("truediv", a, x, TPSA_truediv(heap[a], Opd(x)))

Rtruediv == \E a \in Live, x \in ScalarOthers :
  Returns("rtruediv", a, x, TPSA_rtruediv(heap[a], Opd(x)))

\* The argument of an elementary function: a numeric series, or a number.
FunArgs ==
  {[tag |-> "tpsa", b |-> a, ser |-> heap[a], sc |-> NoScalar] : a \in Numeric}
    \cup {[tag |-> "num", b |-> 0, ser |-> NoRes, sc |-> x] : x \in NumberArgs}

\* f(arg): a names the argument when it is a series, sc holds it otherwise.
Applies(f, x, o) ==
  /\ Idle
  /\ last' = Call(f, x.b, 0, x.sc, OtherArg, o)
  /\ UNCHANGED <<ORDER, binom_coeffs, heap, dlast>>

Exp == \E x \in FunArgs : Applies("exp", x, TPSA_exp(Opd(x)))

Ln == \E x \in FunArgs : Applies("ln", x, TPSA_ln(Opd(x)))

Sin == \E x \in FunArgs : Applies("sin", x, TPSA_sin(Opd(x)))

Cos == \E x \in FunArgs : Applies("cos", x, TPSA_cos(Opd(x)))

Tan == \E x \in FunArgs : Applies("tan", x, TPSA_tan(Opd(x)))

Sec == \E x \in FunArgs : Applies("sec", x, TPSA_sec(Opd(x)))

Csc == \E x \in FunArgs : Applies("csc", x, TPSA_csc(Opd(x)))

Cot == \E x \in FunArgs : Applies("cot", x, TPSA_cot(Opd(x)))

Tanh == \E x \in FunArgs : Applies("tanh", x, TPSA_tanh(Opd(x)))

\* logistic(arg, pow): val records pow
Logistic == \E x \in FunArgs, pow \in Powers :
  /\ Idle
  /\ last' = Call("logistic", x.b, 0, x.sc, NumArg(pow.v),
                  TPSA_logistic(Opd(x), pow))
  /\ UNCHANGED <<ORDER, binom_coeffs, heap, dlast>>

Heaviside == \E x \in FunArgs :
  Applies("heaviside", x, TPSA_heaviside(Opd(x), DefaultSharp))

\* new = a[lo:hi]; new[k] = 15
Slice ==
  \E a \in Numeric :
    \E lo \in 0..1 :
      \E hi \in (lo + 2)..(lo + 2) :
        \E k \in 0..(hi - lo - 1) :
          /\ Idle
          /\ heap' = [heap EXCEPT ![a] = SliceAssign(heap[a], lo, hi, k, R(15))]
          /\ last' = Call("slice", a, 0, NoScalar, OtherArg,
                          Ok(Arr([TPSA_getitem(heap[a], lo, hi).data
                                    EXCEPT ![k + 1] = R(15)],
                                 [i \in 1..(hi - lo) |-> FALSE],
                                 heap[a].dtype)))
          /\ UNCHANGED <<ORDER, binom_coeffs, dlast>>

\* The caller is done with the last call's result.
Done ==
  /\ ~Idle
  /\ last' = NoCall
  /\ UNCHANGED <<ORDER, binom_coeffs, heap, dlast>>

Next ==
  \/ SetOrder \/ Construct
  \/ Add \/ Radd \/ (Iadd /\ Small') \/ Abs \/ Neg \/ Sub \/ Rsub
  \/ Mul \/ Rmul \/ (Imul /\ Small') \/ Pow \/ Truediv \/ Rtruediv
  \/ Exp \/ Ln \/ Sin \/ Cos \/ Tan \/ Sec \/ Csc \/ Cot \/ Tanh
  \/ Logistic \/ Heaviside
  \/ Slice
  \/ Done

Spec == Init /\ [][Next]_vars

(***************************************************************************)
(* The algebra on its own: the order is set, two series of that order are  *)
(* held, and one operation is applied to them.  A series is built from a   *)
(* list of ints or of floats, from a number, or is symbolic: a series      *)
(* built from a delegate to which a list-built series was added in place.  *)
(***************************************************************************)
AlgElems == {-1, 2}

AlgX0 == {R(-1), R(0), R(2), <<1, 2>>, R(3)}

RECURSIVE SeqsOver(_, _)
SeqsOver(S, n) ==
  IF n = 0 THEN {<<>>}
  ELSE {Append(q, R(e)) : q \in SeqsOver(S, n - 1), e \in S}

ListBuilt(n, dtypes) ==
  {Arr(fx, [i \in 1..n |-> FALSE], d) : fx \in SeqsOver(AlgElems, n), d \in dtypes}

AlgSeries(order) ==
  LET n == order + 1
      var == Arr([i \in 1..n |-> IF i = 1 THEN R(2) ELSE IF i = 2 THEN R(1) ELSE R(0)],
                 [i \in 1..n |-> i = 1], "object")
  IN ListBuilt(n, {"int", "float"})
       \cup {TPSA_iadd(var, T(l)).res : l \in ListBuilt(n, {"float"})}
       \cup {Arr([i \in 1..n |-> IF i = 1 THEN x ELSE IF i = 2 THEN R(1) ELSE R(0)],
                 [i \in 1..n |-> FALSE], "float") : x \in AlgX0}

\* The second operand: entries that differ from one index to the next.
AlgOthers(order) ==
  LET n == order + 1 IN
  {Arr([i \in 1..n |-> R(i * i - 2)], [i \in 1..n |-> FALSE], d) :
     d \in {"int", "float"}}
    \cup {Arr([i \in 1..n |-> R(3 - i)], [i \in 1..n |-> i = 1], "object")}

InitAlg ==
  /\ ORDER \in 2..MaxOrder
  /\ binom_coeffs = BinomTable(ORDER)
  /\ heap \in {[n \in Names |-> IF n = 1 THEN a ELSE b] :
                 a \in AlgSeries(ORDER), b \in AlgOthers(ORDER)}
  /\ last = NoCall
  /\ dlast = NoDelegateCall

NextAlg ==
  \/ Add \/ Iadd
  \/ Mul \/ Rmul \/ Imul \/ Rtruediv
  \/ Exp \/ Ln \/ Sin \/ Cos
  \/ Logistic \/ Heaviside

SpecAlg == InitAlg /\ [][NextAlg]_vars

(***************************************************************************)
(* Delegates on their own: an operation is applied to two delegates, each  *)
(* a named one or the result of the operation before.                      *)
(***************************************************************************)
MaxNameLen == 9

BaseDelegates ==
  {Delegate("0", R(0)), Delegate("0.0", R(0)), Delegate("-0", R(0)),
   Delegate("-0.0", R(0)), Delegate("x", R(2)), Delegate("cos", R(3)),
   Delegate("exp(x)", R(-1))}

ScalarStrs ==
  {[str |-> "1", v |-> R(1)], [str |-> "1.0", v |-> R(1)],
   [str |-> "-1", v |-> R(-1)], [str |-> "0", v |-> R(0)],
   [str |-> "0.0", v |-> R(0)], [str |-> "2", v |-> R(2)],
   [str |-> "0.5", v |-> <<1, 2>>]}

Delegates ==
  BaseDelegates \cup (IF dlast.op = "none" THEN {} ELSE {dlast.res})

DelegateCall(op, self, other, res) ==
  /\ Len(res.string) <= MaxNameLen
  /\ dlast' = [op |-> op, self |-> self, other |-> other, res |-> res]
  /\ UNCHANGED <<ORDER, binom_coeffs, heap, last>>

DMul == \E self \in Delegates, other \in Delegates :
  DelegateCall("mul", self, other, DelegateFunc_mul(self, other))

DMulScalar == \E self \in Delegates, other \in ScalarStrs :
  DelegateCall("mul_scalar", self, Delegate(other.str, other.v),
               DelegateFunc_mul_scalar(self, other))

DAdd == \E self \in Delegates, other \in Delegates :
  DelegateCall("add", self, other, DelegateFunc_add(self, other))

DNeg == \E self \in Delegates :
  DelegateCall("neg", self, self, DelegateFunc_neg(self))

NextDelegate == DMul \/ DMulScalar \/ DAdd \/ DNeg

SpecDelegate == Init /\ [][NextDelegate]_vars

(***************************************************************************)
(* Reference values, computed apart from the operators above.              *)
(***************************************************************************)
\* C(n, k) by factorials
Choose(n, k) == IF k > n THEN 0 ELSE Fact(n) \div (Fact(k) * Fact(n - k))

RefTable(order) ==
  [n \in 1..(order + 1) |-> [k \in 1..(order + 1) |-> Choose(n - 1, k - 1)]]

\* sum over k..j of C(j,k) * a[k] * b[j-k], indices as in the code
RECURSIVE ConvSum(_, _, _, _)
ConvSum(a, b, j, k) ==
  IF k > j THEN R(0)
  ELSE QAdd(QMul(QMul(R(Choose(j, k)), a[k + 1]), b[j - k + 1]),
            ConvSum(a, b, j, k + 1))

Convolution(a, b) == [j \in 1..Len(a) |-> ConvSum(a, b, j - 1, 0)]

\* [x0, 1, 0, ..., 0] of the current order, as floats
ScalarBuilt(x0) ==
  Arr([i \in 1..(ORDER + 1) |->
         IF i = 1 THEN x0 ELSE IF i = 2 THEN R(1) ELSE R(0)],
      [i \in 1..(ORDER + 1) |-> FALSE], "float")

OneSeries ==
  Arr([i \in 1..(ORDER + 1) |-> IF i = 1 THEN R(1) ELSE R(0)],
      [i \in 1..(ORDER + 1) |-> FALSE], "float")

CurrentOrder(a) == Len(a.fx) = ORDER + 1

ElementaryFunctions ==
  {"exp", "ln", "sin", "cos", "tan", "sec", "csc", "cot", "tanh", "logistic",
   "heaviside"}

Combining == {"add", "sub", "mul", "truediv", "iadd", "imul"}

(***************************************************************************)
(* Properties.                                                             *)
(***************************************************************************)
\* C1: for series a and b of the current order, a*b succeeds and so does
\* a *= b, and coefficient j of the product (returned by *, held by a after
\* *=) is the sum over k = 0..j of C(j,k)*a[k]*b[j-k], whether the numeric
\* or the symbolic path computed it; * leaves both operands as they were.
C1_ProductIsBinomialConvolution ==
  [][(/\ last'.op \in {"mul", "imul"}
      /\ last'.b # 0
      /\ CurrentOrder(heap[last'.a])
      /\ CurrentOrder(heap[last'.b]))
       => /\ last'.err = "none"
          /\ last'.res.fx = Convolution(heap[last'.a].fx, heap[last'.b].fx)
          /\ IF last'.op = "imul"
             THEN heap'[last'.a].fx
                    = Convolution(heap[last'.a].fx, heap[last'.b].fx)
             ELSE heap' = heap]_vars

\* C1 witness: a *= b went through the symbolic path, b with a first
\* derivative, and left a second derivative in a.
C1_Witness ==
  /\ last.op = "imul"
  /\ last.b = 2
  /\ last.a = 1
  /\ last.err = "none"
  /\ heap[2].dtype = "object"
  /\ heap[1].dtype = "object"
  /\ heap[2].fx[2] # R(0)
  /\ heap[1].fx[3] # R(0)

\* C2: for a series built from a scalar x0, sin gives (sin x0, cos x0) as
\* coefficients 0 and 1, cos gives (cos x0, -sin x0), exp gives
\* (exp x0, exp x0) and, when x0 > 0, ln gives (ln x0, 1/x0), the values at
\* x0 being whatever np.sin, np.cos, np.exp and np.log return there.
C2_FirstDerivatives ==
  (/\ last.op \in {"sin", "cos", "exp", "ln"}
   /\ last.a # 0
   /\ heap[last.a] = ScalarBuilt(heap[last.a].fx[1])
   /\ (last.op = "ln" => heap[last.a].fx[1][1] > 0))
    => LET x0 == heap[last.a].fx[1] IN
       /\ last.err = "none"
       /\ last.op = "sin" =>
            last.res.fx[1] = np_sin(x0) /\ last.res.fx[2] = np_cos(x0)
       /\ last.op = "cos" =>
            last.res.fx[1] = np_cos(x0) /\ last.res.fx[2] = QNeg(np_sin(x0))
       /\ last.op = "exp" =>
            last.res.fx[1] = np_exp(x0) /\ last.res.fx[2] = np_exp(x0)
       /\ last.op = "ln" =>
            last.res.fx[1] = np_log(x0) /\ last.res.fx[2] = QInv(x0)

\* C2 witness: ln of the series built from 1/2 returned 1/x0 = 2 as its
\* first derivative.
C2_Witness ==
  /\ last.op = "ln"
  /\ last.a # 0
  /\ heap[last.a] = ScalarBuilt(<<1, 2>>)
  /\ last.err = "none"
  /\ last.res.fx[2] = R(2)

\* C3: for every numeric series a of the current order with a[0] nonzero,
\* 1/a is computed and (1/a) * a equals the one-series [1, 0, ..., 0].
C3_ReciprocalTimesSeriesIsOne ==
  (/\ last.op = "rtruediv"
   /\ last.sc = PyInt(1)
   /\ heap[last.a].dtype # "object"
   /\ CurrentOrder(heap[last.a])
   /\ heap[last.a].fx[1] # R(0))
    => /\ last.err = "none"
       /\ LET p == TPSA_mul(last.res, T(heap[last.a])) IN
          p.err = "none" /\ TPSA_eq(p.res, OneSeries).res

\* C4: under whatever order is in effect, construction from a number v
\* gives the order+1 coefficients [v, 1, 0, ..., 0]; construction from a
\* sequence succeeds exactly when it has order+1 values, which it then holds
\* in order, and otherwise raises the length error; a value of any other
\* type that is no delegate raises the type error.
C4_Construction ==
  last.op = "init" =>
    /\ last.val.kind = "num" =>
         /\ last.err = "none"
         /\ heap[last.a] = last.res
         /\ last.res.fx = ScalarBuilt(last.val.v).fx
    /\ last.val.kind = "seq" =>
         IF Len(last.val.arr.fx) = ORDER + 1
         THEN /\ last.err = "none"
              /\ heap[last.a] = last.res
              /\ last.res.fx = last.val.arr.fx
         ELSE last.err = "ValueError" /\ last.res = NoRes
    /\ last.val.kind = "other" =>
         last.err = "TypeError" /\ last.res = NoRes

\* C4 witness: after the order was raised to 3, a number was made a series
\* of four coefficients.
C4_Witness ==
  /\ last.op = "init"
  /\ ORDER = 3
  /\ last.val.kind = "num"
  /\ last.err = "none"
  /\ Len(heap[last.a].fx) = 4

\* C5: the order is always an integer greater than 1 and the table holds
\* C(n,k) for n, k in 0..order; setting the order to a non-integer raises
\* TypeError and to an integer <= 1 raises ValueError, each leaving order
\* and table as they were, and a valid set changes order and table together.
C5_OrderAndTable ==
  /\ [](ORDER \in Nat /\ ORDER > 1 /\ binom_coeffs = RefTable(ORDER))
  /\ [][last'.op = "order" =>
          IF last'.sc.ty # "int"
          THEN last'.err = "TypeError" /\ UNCHANGED <<ORDER, binom_coeffs>>
          ELSE IF last'.sc.v[1] <= 1
          THEN last'.err = "ValueError" /\ UNCHANGED <<ORDER, binom_coeffs>>
          ELSE /\ last'.err = "none"
               /\ ORDER' = last'.sc.v[1]
               /\ binom_coeffs' = RefTable(last'.sc.v[1])]_vars

\* C5 witness: with the order at 3, an attempt to set it to an integer <= 1
\* was refused.
C5_Witness ==
  /\ last.op = "order"
  /\ last.err = "ValueError"
  /\ ORDER = 3
  /\ Len(binom_coeffs) = 4

\* C6: when one operand has the current order's length and the other, built
\* under another order, has not, each of +, -, *, /, += and *= raises and
\* stores nothing.
C6_MixedOrdersRaise ==
  [][(/\ last'.op \in Combining
      /\ last'.b # 0
      /\ Len(heap[last'.a].fx) # Len(heap[last'.b].fx)
      /\ CurrentOrder(heap[last'.a]) \/ CurrentOrder(heap[last'.b]))
       => last'.err # "none" /\ heap' = heap]_vars

\* C7: the array a name holds changes only when the name is the left
\* operand of += or *= (or is bound anew by a construction); every other
\* operator, every elementary function and an assignment into a slice that
\* was read leave every series as it was.
C7_OnlyInPlaceOperatorsMutate ==
  [][\A n \in Names :
       heap'[n] # heap[n] =>
         last'.a = n /\ last'.op \in {"iadd", "imul", "init"}]_vars

\* C7 witness: 15 was assigned into a slice read from a series, and the
\* series does not hold it.
C7_Witness ==
  /\ last.op = "slice"
  /\ \E k \in 1..Len(last.res.fx) : last.res.fx[k] = R(15)
  /\ \A i \in 1..Len(heap[last.a].fx) : heap[last.a].fx[i] # R(15)

\* C8: for a numeric series t of the current order with 1 - t[0] > 0,
\* logistic(t, p) returns exp(p * ln(1 + (-t))), and heaviside(t) returns
\* logistic(2*sharpness*t).
C8_LogisticIsPower ==
  /\ (/\ last.op = "logistic"
      /\ last.a # 0
      /\ heap[last.a].dtype = "float"
      /\ CurrentOrder(heap[last.a])
      /\ heap[last.a].fx[1][1] < heap[last.a].fx[1][2])
       => /\ last.err = "none"
          /\ Ok(last.res)
               = Then(TPSA_neg(heap[last.a]), LAMBDA n :
                   Then(TPSA_radd(n, N(PyInt(1))), LAMBDA u :
                     TPSA_pow(u, PyFloat(last.val.v))))
  /\ (/\ last.op = "heaviside"
      /\ last.a # 0
      /\ heap[last.a].dtype = "float"
      /\ CurrentOrder(heap[last.a])
      /\ 2 * DefaultSharp * heap[last.a].fx[1][1] < heap[last.a].fx[1][2])
       => /\ last.err = "none"
          /\ Ok(last.res)
               = Then(TPSA_rmul(heap[last.a], N(PyInt(2 * DefaultSharp))),
                      LAMBDA t : TPSA_logistic(T(t), DefaultPow))

\* C9: each elementary function given a plain number raises the error
\* "Function only accepts TPSA object" and returns nothing.
C9_NumberArgumentRejected ==
  (last.op \in ElementaryFunctions /\ last.a = 0)
    => last.err = OnlyAcceptsTPSA /\ last.res = NoRes

\* C10: the product of two delegates is named "0" when the name of either
\* is one of '0', '0.0', '-0', '-0.0', and otherwise shorter*(longer).
C10_ZeroNameCollapses ==
  dlast.op = "mul" =>
    dlast.res.string =
      IF dlast.self.string \in ZeroLiterals \/ dlast.other.string \in ZeroLiterals
      THEN "0"
      ELSE IF Len(dlast.self.string) <= Len(dlast.other.string)
      THEN dlast.self.string \o "*(" \o dlast.other.string \o ")"
      ELSE dlast.other.string \o "*(" \o dlast.self.string \o ")"

=============================================================================
